---- MODULE Spec2Model ----
(***************************************************************************)
(* The Bank / Account domain model of src/Hackathon/main.py, and the       *)
(* Account of src/Banking_Project/main.py with the handlers of its         *)
(* BankingApp.                                                             *)
(*                                                                         *)
(* Money is a Python float in the source.  Here it is an integer number of *)
(* currency units; the only non-integral computation, the monthly interest *)
(* balance * 0.045 / 12, is truncated to whole units.  The timestamp field *)
(* of a transaction record (datetime.now()) is left out: no operation      *)
(* reads it.  Amounts are finite numbers (no nan, no inf).  Strings the    *)
(* code validates with regular expressions (usernames, passwords, holder   *)
(* names) are sequences of one-character strings.                          *)
(***************************************************************************)
EXTENDS Integers, Sequences, FiniteSets, TLC

VARIABLES
    accounts,   \* Bank._accounts: account number -> Account object
    users,      \* Bank._users: username -> User (its password_hash)
    holders,    \* Bank._account_holders: username -> list of account numbers
    calls,      \* number of calls counted against MaxCalls or MaxOpens
    registration, \* history: username -> password of its successful create_user
    opening,    \* open_account calls in progress: caller -> position and locals
    account,    \* BankingApp.account of src/Banking_Project/main.py
    last        \* the call made last, its arguments and how it ended

vars == <<accounts, users, holders, calls, registration, opening, account,
          last>>

(***************************************************************************)
(* Bounds of the exploration.                                              *)
(***************************************************************************)
MaxNum == 3          \* size of the account-number space that is explored
MaxCalls == 2        \* balance-changing calls explored per behaviour
MaxOpens == 4        \* statement-level open_account calls per behaviour

(***************************************************************************)
(* Program constants.                                                      *)
(***************************************************************************)
MINIMUM_BALANCE == 1000
OVERDRAFT_LIMIT == 10000
INTEREST_RATE_PER_MILLE == 45
MONTHS_PER_YEAR == 12

SAVINGS == "Savings"
CURRENT == "Current"
AccountType == {SAVINGS, CURRENT}

DEPOSIT == "Deposit"
WITHDRAWAL == "Withdrawal"
TRANSFER_SENT == "Transfer Sent"
TRANSFER_RECEIVED == "Transfer Received"
INTEREST_CREDIT == "Interest Credit"

(***************************************************************************)
(* BankingError is the only exception class of the source; its message     *)
(* tells the kinds apart.  Each message is named by the error kind it      *)
(* stands for.  KeyError is Python's own, raised by a dict lookup.         *)
(***************************************************************************)
OK == "ok"
InactiveAccount == "InactiveAccount"                \* "Account is inactive", "One or both accounts are inactive"
InvalidAmount == "InvalidAmount"                    \* "Invalid deposit amount", "Invalid withdrawal amount"
InsufficientFunds == "InsufficientFunds"            \* "Insufficient balance"
BelowMinimumBalance == "BelowMinimumBalance"        \* "Must maintain minimum balance of ..."
OverdraftLimitExceeded == "OverdraftLimitExceeded"  \* "Exceeds overdraft limit of ..."
ValidationError == "ValidationError"                \* "Invalid transfer amount", "Invalid ... format", ...
AccountNotFound == "AccountNotFound"                \* "Invalid account number(s)"
KeyError == "KeyError"

\* The exception classes of src/Banking_Project/main.py, and the handler of
\* BankingApp that found no account ("No account found. ...").
InvalidAmountError == "InvalidAmountError"
InsufficientBalanceError == "InsufficientBalanceError"
NoAccount == "NoAccount"

(***************************************************************************)
(* Inputs.                                                                 *)
(***************************************************************************)
AccountNumbers == 1..MaxNum
Callers == {"caller1", "caller2"}
Amounts == {-1000, 0, 1000, 11000}
InitialBalances == {-1000, 0, 1000}

(***************************************************************************)
(* Account                                                                 *)
(***************************************************************************)
NewAccount(account_type) ==
    [type |-> account_type, balance |-> 0, log |-> <<>>, active |-> TRUE]

Raise(acc, kind) == [res |-> kind, acc |-> acc]
Return(acc) == [res |-> OK, acc |-> acc]

\* _add_transaction keeping only the newest record.
add_transaction_overwriting(acc, transaction_type, amount) ==
    [acc EXCEPT !.log = <<[type |-> transaction_type,
                           amount |-> amount,
                           balance |-> acc.balance]>>]

add_transaction(acc, transaction_type, amount) ==
    [acc EXCEPT !.log = Append(@, [type |-> transaction_type,
                                   amount |-> amount,
                                   balance |-> acc.balance])]

\* deposit without its amount check.
deposit_any_amount(acc, amount) ==
    IF ~acc.active THEN Raise(acc, InactiveAccount)
    ELSE Return(add_transaction([acc EXCEPT !.balance = @ + amount],
                                DEPOSIT, amount))

deposit(acc, amount) ==
    IF ~acc.active THEN Raise(acc, InactiveAccount)
    ELSE IF amount <= 0 THEN Raise(acc, InvalidAmount)
    ELSE Return(add_transaction([acc EXCEPT !.balance = @ + amount],
                                DEPOSIT, amount))

\* withdraw recording the amount with the sign of a deposit.
Account_withdraw_unsigned_record(acc, amount) ==
    IF ~acc.active THEN Raise(acc, InactiveAccount)
    ELSE IF amount <= 0 THEN Raise(acc, InvalidAmount)
    ELSE IF amount > acc.balance THEN Raise(acc, InsufficientFunds)
    ELSE Return(add_transaction([acc EXCEPT !.balance = @ - amount],
                                WITHDRAWAL, amount))

Account_withdraw(acc, amount) ==
    IF ~acc.active THEN Raise(acc, InactiveAccount)
    ELSE IF amount <= 0 THEN Raise(acc, InvalidAmount)
    ELSE IF amount > acc.balance THEN Raise(acc, InsufficientFunds)
    ELSE Return(add_transaction([acc EXCEPT !.balance = @ - amount],
                                WITHDRAWAL, -amount))

\* The withdraw of a SavingsAccount that does not override Account.withdraw.
SavingsAccount_withdraw_not_overridden(acc, amount) ==
    Account_withdraw(acc, amount)

SavingsAccount_withdraw(acc, amount) ==
    IF acc.balance - amount < MINIMUM_BALANCE
    THEN Raise(acc, BelowMinimumBalance)
    ELSE Account_withdraw(acc, amount)

\* The withdraw of a CurrentAccount that does not override Account.withdraw.
CurrentAccount_withdraw_not_overridden(acc, amount) ==
    Account_withdraw(acc, amount)

CurrentAccount_withdraw(acc, amount) ==
    IF acc.balance - amount < -OVERDRAFT_LIMIT
    THEN Raise(acc, OverdraftLimitExceeded)
    ELSE Account_withdraw(acc, amount)

withdraw(acc, amount) ==
    IF acc.type = SAVINGS THEN SavingsAccount_withdraw(acc, amount)
    ELSE CurrentAccount_withdraw(acc, amount)

monthly_interest(balance) ==
    (balance * INTEREST_RATE_PER_MILLE) \div (1000 * MONTHS_PER_YEAR)

SavingsAccount_calculate_interest(acc) ==
    add_transaction([acc EXCEPT !.balance = @ + monthly_interest(acc.balance)],
                    INTEREST_CREDIT, monthly_interest(acc.balance))

\* A CurrentAccount that inherits the interest computation of a Savings
\* account.
CurrentAccount_calculate_interest_credited(acc) ==
    SavingsAccount_calculate_interest(acc)

CurrentAccount_calculate_interest(acc) == acc

calculate_interest(acc) ==
    IF acc.type = SAVINGS THEN SavingsAccount_calculate_interest(acc)
    ELSE CurrentAccount_calculate_interest(acc)

interest_returned(acc) ==
    IF acc.type = SAVINGS THEN monthly_interest(acc.balance) ELSE 0

toggle_account_status(acc) == [acc EXCEPT !.active = ~@]

(***************************************************************************)
(* src/Banking_Project/main.py: class Account.  The operators carry the    *)
(* prefix BankingProject_ where the name is taken by the Account of        *)
(* src/Hackathon/main.py.  The name of the account holder is left out: it  *)
(* appears in the heading of the statement only.                           *)
(***************************************************************************)
\* Account.__init__ accepting every initial balance.
BankingProject_Account_unchecked(initial_balance) ==
    [res |-> OK, acc |-> [balance |-> initial_balance, transactions |-> <<>>]]

\* Account.__init__: the object constructed, or the exception raised.
BankingProject_Account(initial_balance) ==
    IF initial_balance < 0 THEN [res |-> InvalidAmountError]
    ELSE [res |-> OK,
          acc |-> [balance |-> initial_balance, transactions |-> <<>>]]

BankingProject_deposit(acc, amount) ==
    IF amount <= 0 THEN [res |-> InvalidAmountError, acc |-> acc]
    ELSE [res |-> OK,
          acc |-> [balance |-> acc.balance + amount,
                   transactions |-> Append(acc.transactions,
                                           <<DEPOSIT, amount>>)]]

\* Account.withdraw without its balance test.
BankingProject_withdraw_unchecked(acc, amount) ==
    IF amount <= 0 THEN [res |-> InvalidAmountError, acc |-> acc]
    ELSE [res |-> OK,
          acc |-> [balance |-> acc.balance - amount,
                   transactions |-> Append(acc.transactions,
                                           <<WITHDRAWAL, amount>>)]]

BankingProject_withdraw(acc, amount) ==
    IF amount <= 0 THEN [res |-> InvalidAmountError, acc |-> acc]
    ELSE IF acc.balance < amount
    THEN [res |-> InsufficientBalanceError, acc |-> acc]
    ELSE [res |-> OK,
          acc |-> [balance |-> acc.balance - amount,
                   transactions |-> Append(acc.transactions,
                                           <<WITHDRAWAL, amount>>)]]

check_balance(acc) == acc.balance

\* The running balance print_statement has computed after the first k
\* transactions: its local variable balance, which starts at 0.0.
RECURSIVE statement_balance(_, _)
statement_balance(transactions, k) ==
    IF k = 0 THEN 0
    ELSE IF transactions[k][1] = DEPOSIT
    THEN statement_balance(transactions, k - 1) + transactions[k][2]
    ELSE IF transactions[k][1] = WITHDRAWAL
    THEN statement_balance(transactions, k - 1) - transactions[k][2]
    ELSE statement_balance(transactions, k - 1)

\* Account.print_statement: the lines after the heading, one for each
\* transaction, with the values each line shows; no line ("No transactions
\* yet.") for an empty list.
print_statement(acc) ==
    [k \in 1..Len(acc.transactions) |->
        [type |-> acc.transactions[k][1],
         amount |-> acc.transactions[k][2],
         balance |-> statement_balance(acc.transactions, k)]]

(***************************************************************************)
(* User                                                                    *)
(***************************************************************************)
\* hashlib.sha256(password.encode()).hexdigest(): deterministic, and taken
\* to be collision-free on the passwords explored.
hash_password(password) == <<"sha256", password>>

NewUser(username, password) ==
    [username |-> username, password_hash |-> hash_password(password)]

verify_password(user, password) == hash_password(password) = user.password_hash

(***************************************************************************)
(* Bank: validation.  A string is a sequence of one-character strings.     *)
(***************************************************************************)
Upper == {"A","B","C","D","E","F","G","H","I","J","K","L","M",
          "N","O","P","Q","R","S","T","U","V","W","X","Y","Z"}
Lower == {"a","b","c","d","e","f","g","h","i","j","k","l","m",
          "n","o","p","q","r","s","t","u","v","w","x","y","z"}
Digit == {"0","1","2","3","4","5","6","7","8","9"}
Space == {" "}
Special == {"!","@","#","$","%","^","&","*","(",")",",",".","?","\"",
            ":","{","}","|","<",">"}

Chars(s) == {s[i] : i \in 1..Len(s)}

\* re.match(r'^[A-Za-z\s]{2,50}$', name)
validate_name(name) ==
    /\ Len(name) >= 2
    /\ Len(name) <= 50
    /\ Chars(name) \subseteq Upper \cup Lower \cup Space

\* re.match(r'^[A-Za-z0-9_]{4,20}$', username)
validate_username(username) ==
    /\ Len(username) >= 4
    /\ Len(username) <= 20
    /\ Chars(username) \subseteq Upper \cup Lower \cup Digit \cup {"_"}

validate_password(password) ==
    IF Len(password) < 8 THEN FALSE
    ELSE IF Chars(password) \cap Upper = {} THEN FALSE
    ELSE IF Chars(password) \cap Lower = {} THEN FALSE
    ELSE IF Chars(password) \cap Digit = {} THEN FALSE
    ELSE IF Chars(password) \cap Special = {} THEN FALSE
    ELSE TRUE

alice_01 == <<"a","l","i","c","e","_","0","1">>
bob == <<"b","o","b">>
Usernames == {alice_01, bob}

Str0ngPass == <<"S","t","r","0","n","g","!","P","a","s","s">>
Oth3rPass == <<"O","t","h","3","r","?","P","a","s","s">>
weakpass == <<"w","e","a","k","p","a","s","s">>
Passwords == {Str0ngPass, Oth3rPass, weakpass}

AliceSmith == <<"A","l","i","c","e"," ","S","m","i","t","h">>
Al1ce == <<"A","l","1","c","e">>
HolderNames == {AliceSmith, Al1ce}

(***************************************************************************)
(* Bank: operations on the registries.                                     *)
(***************************************************************************)
\* _generate_account_number returning the first number drawn.
generate_account_number_unchecked(accts) == AccountNumbers

\* The numbers _generate_account_number can return: the loop draws numbers
\* until one is not a key of _accounts.
generate_account_number(accts) == AccountNumbers \ DOMAIN accts

Put(f, k, v) == [x \in DOMAIN f \cup {k} |-> IF x = k THEN v ELSE f[x]]

\* create_user without its "Username already exists" check.
create_user_overwriting(usrs, hold, username, password) ==
    IF ~validate_username(username)
    THEN [res |-> ValidationError, users |-> usrs, holders |-> hold]
    ELSE IF ~validate_password(password)
    THEN [res |-> ValidationError, users |-> usrs, holders |-> hold]
    ELSE [res |-> OK,
          users |-> Put(usrs, username, NewUser(username, password)),
          holders |-> Put(hold, username, <<>>)]

\* Bank.create_user on the two user registries.
create_user(usrs, hold, username, password) ==
    IF ~validate_username(username)
    THEN [res |-> ValidationError, users |-> usrs, holders |-> hold]
    ELSE IF ~validate_password(password)
    THEN [res |-> ValidationError, users |-> usrs, holders |-> hold]
    ELSE IF username \in DOMAIN usrs
    THEN [res |-> ValidationError, users |-> usrs, holders |-> hold]
    ELSE [res |-> OK,
          users |-> Put(usrs, username, NewUser(username, password)),
          holders |-> Put(hold, username, <<>>)]

\* authenticate_user accepting every password of a registered user.
authenticate_user_any_password(usrs, username, password) ==
    username \in DOMAIN usrs

\* Bank.authenticate_user: _users.get(username) is None for an unknown
\* username, and None is falsy.
authenticate_user(usrs, username, password) ==
    IF username \notin DOMAIN usrs THEN FALSE
    ELSE IF verify_password(usrs[username], password) THEN TRUE
    ELSE FALSE

\* The loop test of _generate_account_number passing on every number.
generate_account_number_test_always(accts, account_number) == TRUE

\* The loop test of _generate_account_number: the number drawn is returned
\* if it is not a key of _accounts, else the loop draws again.
generate_account_number_test(accts, account_number) ==
    account_number \notin DOMAIN accts

\* As open_account, without the write to _accounts.
open_account_not_registered(accts, hold, username, account_type, account_number) ==
    IF username \in DOMAIN hold
    THEN [res |-> OK, accts |-> accts,
          holders |-> [hold EXCEPT ![username] = Append(@, account_number)]]
    ELSE [res |-> KeyError, accts |-> accts, holders |-> hold]

\* Bank.open_account once the holder name is valid and account_number has
\* been generated: the account is registered, then appended to the owner's
\* list; the list lookup raises KeyError for a username that is not a key.
open_account(accts, hold, username, account_type, account_number) ==
    LET registered == Put(accts, account_number, NewAccount(account_type)) IN
    IF username \in DOMAIN hold
    THEN [res |-> OK, accts |-> registered,
          holders |-> [hold EXCEPT ![username] = Append(@, account_number)]]
    ELSE [res |-> KeyError, accts |-> registered, holders |-> hold]

\* dict.get: the account in a one-element tuple, or the empty tuple for None.
get_account(accts, account_number) ==
    IF account_number \in DOMAIN accts THEN <<accts[account_number]>> ELSE <<>>

\* As transfer_validation, with the accounts looked up before the amount is
\* checked.
transfer_validation_lookup_first(accts, sender, receiver, amount) ==
    IF get_account(accts, sender) = <<>> \/ get_account(accts, receiver) = <<>>
    THEN AccountNotFound
    ELSE IF amount <= 0 THEN ValidationError
    ELSE IF ~accts[sender].active \/ ~accts[receiver].active
    THEN InactiveAccount
    ELSE OK

\* As transfer_validation, with is_active checked on the sender only.
transfer_validation_sender_only(accts, sender, receiver, amount) ==
    IF amount <= 0 THEN ValidationError
    ELSE IF get_account(accts, sender) = <<>> \/ get_account(accts, receiver) = <<>>
    THEN AccountNotFound
    ELSE IF ~accts[sender].active THEN InactiveAccount
    ELSE OK

\* Bank.transfer, its checks: OK, or the kind of the error the first failing
\* check raises.
transfer_validation(accts, sender, receiver, amount) ==
    IF amount <= 0 THEN ValidationError
    ELSE IF get_account(accts, sender) = <<>> \/ get_account(accts, receiver) = <<>>
    THEN AccountNotFound
    ELSE IF ~accts[sender].active \/ ~accts[receiver].active
    THEN InactiveAccount
    ELSE OK

\* As transfer_perform, without the deposit on the receiver.
transfer_perform_without_deposit(accts, sender, receiver, amount) ==
    LET w == withdraw(accts[sender], amount)
        a1 == [accts EXCEPT ![sender] = w.acc]
        a3 == [a1 EXCEPT ![sender] = add_transaction(@, TRANSFER_SENT, -amount)]
        a4 == [a3 EXCEPT ![receiver] = add_transaction(@, TRANSFER_RECEIVED, amount)]
    IN  IF w.res # OK THEN [res |-> w.res, stage |-> "withdraw", accts |-> accts]
        ELSE [res |-> OK, stage |-> "done", accts |-> a4]

\* Bank.transfer, "Perform transfer" and "Record transfer transactions": the
\* statements run in order on the mapping, an exception ends the call and
\* leaves what the earlier statements wrote.  stage is the statement that
\* raised.
transfer_perform(accts, sender, receiver, amount) ==
    LET w == withdraw(accts[sender], amount)
        a1 == [accts EXCEPT ![sender] = w.acc]
        d == deposit(a1[receiver], amount)
        a2 == [a1 EXCEPT ![receiver] = d.acc]
        a3 == [a2 EXCEPT ![sender] = add_transaction(@, TRANSFER_SENT, -amount)]
        a4 == [a3 EXCEPT ![receiver] = add_transaction(@, TRANSFER_RECEIVED, amount)]
    IN  IF w.res # OK THEN [res |-> w.res, stage |-> "withdraw", accts |-> accts]
        ELSE IF d.res # OK THEN [res |-> d.res, stage |-> "deposit", accts |-> a1]
        ELSE [res |-> OK, stage |-> "done", accts |-> a4]

\* Bank.transfer on the account mapping: the mapping it leaves, how the call
\* ended, and the step that raised.
transfer(accts, sender, receiver, amount) ==
    IF transfer_validation(accts, sender, receiver, amount) # OK
    THEN [res |-> transfer_validation(accts, sender, receiver, amount),
          stage |-> "validate", accts |-> accts]
    ELSE transfer_perform(accts, sender, receiver, amount)

\* calculate_all_interest without its is_active test.
calculate_all_interest_ignoring_active(accts) ==
    [n \in DOMAIN accts |->
        IF accts[n].type = SAVINGS
        THEN SavingsAccount_calculate_interest(accts[n])
        ELSE accts[n]]

calculate_all_interest(accts) ==
    [n \in DOMAIN accts |->
        IF accts[n].type = SAVINGS /\ accts[n].active
        THEN SavingsAccount_calculate_interest(accts[n])
        ELSE accts[n]]

admin_check_total_deposit(accts) ==
    LET RECURSIVE Sum(_)
        Sum(S) == IF S = {} THEN 0
                  ELSE LET n == CHOOSE x \in S : TRUE
                       IN accts[n].balance + Sum(S \ {n})
    IN Sum(DOMAIN accts)

\* A caller that is not inside open_account.
Idle == [pc |-> "idle"]

(***************************************************************************)
(* Construction: Bank.__init__.  last holds the call made last, with its   *)
(* arguments and how it ended (OK, or the kind of the exception raised).   *)
(***************************************************************************)
Init ==
    /\ accounts = <<>>
    /\ users = <<>>
    /\ holders = <<>>
    /\ calls = 0
    /\ registration = <<>>
    /\ opening = [t \in Callers |-> Idle]
    /\ account = <<>>
    /\ last = [op |-> "Bank", res |-> OK]

(***************************************************************************)
(* Calls on an Account object (obtained with Bank.get_account).            *)
(***************************************************************************)
Deposit(n, amount) ==
    LET r == deposit(accounts[n], amount) IN
    /\ r.res = OK => calls < MaxCalls
    /\ accounts' = [accounts EXCEPT ![n] = r.acc]
    /\ calls' = IF r.res = OK THEN calls + 1 ELSE calls
    /\ last' = [op |-> "deposit", res |-> r.res, acct |-> n, amount |-> amount]
    /\ UNCHANGED <<users, holders, registration, opening, account>>

Withdraw(n, amount) ==
    LET r == withdraw(accounts[n], amount) IN
    /\ r.res = OK => calls < MaxCalls
    /\ accounts' = [accounts EXCEPT ![n] = r.acc]
    /\ calls' = IF r.res = OK THEN calls + 1 ELSE calls
    /\ last' = [op |-> "withdraw", res |-> r.res, acct |-> n, amount |-> amount]
    /\ UNCHANGED <<users, holders, registration, opening, account>>

CalculateInterest(n) ==
    /\ accounts[n].type = SAVINGS => calls < MaxCalls
    /\ accounts' = [accounts EXCEPT ![n] = calculate_interest(@)]
    /\ calls' = IF accounts[n].type = SAVINGS THEN calls + 1 ELSE calls
    /\ last' = [op |-> "calculate_interest", res |-> OK, acct |-> n,
                ret |-> interest_returned(accounts[n])]
    /\ UNCHANGED <<users, holders, registration, opening, account>>

ToggleAccountStatus(n) ==
    /\ accounts' = [accounts EXCEPT ![n] = toggle_account_status(@)]
    /\ last' = [op |-> "toggle_account_status", res |-> OK, acct |-> n]
    /\ UNCHANGED <<users, holders, calls, registration, opening, account>>

(***************************************************************************)
(* Calls on the Bank.                                                      *)
(***************************************************************************)
Transfer(sender, receiver, amount) ==
    LET r == transfer(accounts, sender, receiver, amount) IN
    /\ r.accts # accounts => calls < MaxCalls
    /\ accounts' = r.accts
    /\ calls' = IF r.accts # accounts THEN calls + 1 ELSE calls
    /\ last' = [op |-> "transfer", res |-> r.res, stage |-> r.stage,
                acct |-> sender, to |-> receiver, amount |-> amount]
    /\ UNCHANGED <<users, holders, registration, opening, account>>

CalculateAllInterest ==
    /\ calculate_all_interest(accounts) # accounts => calls < MaxCalls
    /\ accounts' = calculate_all_interest(accounts)
    /\ calls' = IF accounts' # accounts THEN calls + 1 ELSE calls
    /\ last' = [op |-> "calculate_all_interest", res |-> OK]
    /\ UNCHANGED <<users, holders, registration, opening, account>>

CreateUser(username, password) ==
    LET r == create_user(users, holders, username, password) IN
    /\ users' = r.users
    /\ holders' = r.holders
    /\ registration' = IF r.res = OK
                       THEN Put(registration, username, password)
                       ELSE registration
    /\ last' = [op |-> "create_user", res |-> r.res,
                user |-> username, password |-> password]
    /\ UNCHANGED <<accounts, calls, opening, account>>

\* Bank.authenticate_user: reads _users, writes nothing.
AuthenticateUser(username, password) ==
    /\ last' = [op |-> "authenticate_user", res |-> OK,
                user |-> username, password |-> password,
                ret |-> authenticate_user(users, username, password)]
    /\ UNCHANGED <<accounts, users, holders, calls, registration, opening, account>>

\* A call with a valid holder name returns only once the generation loop has
\* drawn a number that is not in use; with every number in use it does not
\* return.
OpenAccount(username, account_holder, account_type) ==
    IF ~validate_name(account_holder)
    THEN /\ last' = [op |-> "open_account", res |-> ValidationError,
                     user |-> username]
         /\ UNCHANGED <<accounts, users, holders, calls, registration, opening,
                    account>>
    ELSE \E account_number \in generate_account_number(accounts) :
         LET r == open_account(accounts, holders, username, account_type,
                               account_number) IN
         /\ accounts' = r.accts
         /\ holders' = r.holders
         /\ last' = [op |-> "open_account", res |-> r.res,
                     user |-> username, ret |-> account_number]
         /\ UNCHANGED <<users, calls, registration, opening, account>>

Next ==
    \/ \E n \in DOMAIN accounts, amount \in Amounts : Deposit(n, amount)
    \/ \E n \in DOMAIN accounts, amount \in Amounts : Withdraw(n, amount)
    \/ \E n \in DOMAIN accounts : CalculateInterest(n)
    \/ \E n \in DOMAIN accounts : ToggleAccountStatus(n)
    \/ \E s \in AccountNumbers, r \in AccountNumbers, amount \in Amounts :
          Transfer(s, r, amount)
    \/ CalculateAllInterest
    \/ \E u \in Usernames, p \in Passwords : CreateUser(u, p)
    \/ \E u \in Usernames, p \in Passwords : AuthenticateUser(u, p)
    \/ \E u \in Usernames, h \in HolderNames, t \in AccountType : OpenAccount(u, h, t)

\* The whole Bank, from its construction.
Spec == Init /\ [][Next]_vars

(***************************************************************************)
(* One Account object on its own: SavingsAccount(...) or                   *)
(* CurrentAccount(...) as constructed, and the calls on it.  (Under Spec   *)
(* the same state is reached by an open_account for an unregistered        *)
(* username, which registers the account before it raises KeyError.)       *)
(***************************************************************************)
InitAccount ==
    /\ accounts \in {Put(<<>>, 1, NewAccount(t)) : t \in AccountType}
    /\ users = <<>>
    /\ holders = <<>>
    /\ calls = 0
    /\ registration = <<>>
    /\ opening = [t \in Callers |-> Idle]
    /\ account = <<>>
    /\ last = [op |-> "Account", res |-> OK]

NextAccount ==
    \/ \E n \in DOMAIN accounts, amount \in Amounts : Deposit(n, amount)
    \/ \E n \in DOMAIN accounts, amount \in Amounts : Withdraw(n, amount)
    \/ \E n \in DOMAIN accounts : CalculateInterest(n)
    \/ \E n \in DOMAIN accounts : ToggleAccountStatus(n)

SpecAccount == InitAccount /\ [][NextAccount]_vars

(***************************************************************************)
(* The ledger of a Bank in which alice_01 has registered and opened a        *)
(* Savings account (number 1) and a Current account (number 2), and the    *)
(* calls that move money.  The other account numbers are not in use.       *)
(* Under Spec this state is reached by create_user and two open_account    *)
(* calls.                                                                  *)
(***************************************************************************)
InitLedger ==
    /\ accounts = Put(Put(<<>>, 1, NewAccount(SAVINGS)), 2, NewAccount(CURRENT))
    /\ users = Put(<<>>, alice_01, NewUser(alice_01, Str0ngPass))
    /\ holders = Put(<<>>, alice_01, <<1, 2>>)
    /\ calls = 0
    /\ registration = Put(<<>>, alice_01, Str0ngPass)
    /\ opening = [t \in Callers |-> Idle]
    /\ account = <<>>
    /\ last = [op |-> "open_account", res |-> OK, user |-> alice_01, ret |-> 2]

NextLedger ==
    \/ \E n \in DOMAIN accounts, amount \in Amounts : Deposit(n, amount)
    \/ \E n \in DOMAIN accounts, amount \in Amounts : Withdraw(n, amount)
    \/ \E n \in DOMAIN accounts : CalculateInterest(n)
    \/ \E n \in DOMAIN accounts : ToggleAccountStatus(n)
    \/ \E s \in AccountNumbers, r \in AccountNumbers, amount \in Amounts :
          Transfer(s, r, amount)
    \/ CalculateAllInterest

SpecLedger == InitLedger /\ [][NextLedger]_vars

(***************************************************************************)
(* A Bank in which alice_01 has opened two Savings accounts (numbers 1 and  *)
(* 2) and a Current account (number 3) and has deposited 1000 on each;     *)
(* further deposits, and the interest run of the administrator.            *)
(***************************************************************************)
InitInterest ==
    /\ accounts = Put(Put(Put(<<>>, 1, deposit(NewAccount(SAVINGS), 1000).acc),
                              2, deposit(NewAccount(SAVINGS), 1000).acc),
                      3, deposit(NewAccount(CURRENT), 1000).acc)
    /\ users = Put(<<>>, alice_01, NewUser(alice_01, Str0ngPass))
    /\ holders = Put(<<>>, alice_01, <<1, 2, 3>>)
    /\ calls = 0
    /\ registration = Put(<<>>, alice_01, Str0ngPass)
    /\ opening = [t \in Callers |-> Idle]
    /\ account = <<>>
    /\ last = [op |-> "open_account", res |-> OK, user |-> alice_01, ret |-> 3]

NextInterest ==
    \/ \E n \in DOMAIN accounts, amount \in Amounts : Deposit(n, amount)
    \/ \E n \in DOMAIN accounts : ToggleAccountStatus(n)
    \/ CalculateAllInterest

SpecInterest == InitInterest /\ [][NextInterest]_vars

(***************************************************************************)
(* The same Bank of three funded accounts, under toggles and transfers: a  *)
(* transfer between two of the accounts has a bystander.                   *)
(***************************************************************************)
NextTransfer ==
    \/ \E n \in DOMAIN accounts : ToggleAccountStatus(n)
    \/ \E s \in AccountNumbers, r \in AccountNumbers, amount \in Amounts :
          Transfer(s, r, amount)

SpecTransfer == InitInterest /\ [][NextTransfer]_vars

(***************************************************************************)
(* The registries of a Bank, from its construction: the calls that write   *)
(* _users, _account_holders or the keys of _accounts.                      *)
(***************************************************************************)
NextRegistry ==
    \/ \E u \in Usernames, p \in Passwords : CreateUser(u, p)
    \/ \E u \in Usernames, p \in Passwords : AuthenticateUser(u, p)
    \/ \E u \in Usernames, h \in HolderNames, t \in AccountType : OpenAccount(u, h, t)
    \/ \E n \in DOMAIN accounts : ToggleAccountStatus(n)

SpecRegistry == Init /\ [][NextRegistry]_vars

(***************************************************************************)
(* open_account statement by statement, for callers whose calls on one     *)
(* Bank may interleave.  A call validates the holder name and enters the   *)
(* loop of _generate_account_number (OpenBegin); each iteration draws a    *)
(* number and tests it against _accounts (GenerateDraw); with the number   *)
(* the loop returned the call stores the account, appends the number to    *)
(* the owner's list and returns (OpenRegister).  Two fields are history:   *)
(* overlapped, another call was in progress at some time during this one;  *)
(* retried, the iteration before the last drew a number in use.  The calls *)
(* are made for registered users, as the menu of main() makes them for the *)
(* user who has logged in; at most MaxOpens calls pass the validation.     *)
(***************************************************************************)
InProgress == {t \in Callers : opening[t].pc # "idle"}

OpenBegin(t, username, account_holder, account_type) ==
    /\ opening[t].pc = "idle"
    /\ IF ~validate_name(account_holder)
       THEN /\ last' = [op |-> "open_account", res |-> ValidationError,
                        user |-> username]
            /\ UNCHANGED <<opening, calls>>
       ELSE /\ calls < MaxOpens
            /\ calls' = calls + 1
            /\ opening' =
                 [c \in Callers |->
                    IF c = t
                    THEN [pc |-> "generate", username |-> username,
                          account_type |-> account_type,
                          overlapped |-> InProgress # {}]
                    ELSE IF opening[c].pc # "idle"
                    THEN [opening[c] EXCEPT !.overlapped = TRUE]
                    ELSE opening[c]]
            /\ last' = [op |-> "open_account begin", res |-> OK,
                        user |-> username]
    /\ UNCHANGED <<accounts, users, holders, registration, account>>

GenerateDraw(t, account_number) ==
    /\ opening[t].pc \in {"generate", "retry"}
    /\ opening' =
         [opening EXCEPT ![t] =
            [pc |-> IF generate_account_number_test(accounts, account_number)
                    THEN "generated" ELSE "retry",
             username |-> opening[t].username,
             account_type |-> opening[t].account_type,
             overlapped |-> opening[t].overlapped,
             retried |-> opening[t].pc = "retry",
             account_number |-> account_number]]
    /\ last' = [op |-> "generate_account_number", res |-> OK]
    /\ UNCHANGED <<accounts, users, holders, calls, registration, account>>

OpenRegister(t) ==
    /\ opening[t].pc = "generated"
    /\ LET r == open_account(accounts, holders, opening[t].username,
                             opening[t].account_type,
                             opening[t].account_number) IN
       /\ accounts' = r.accts
       /\ holders' = r.holders
       /\ last' = [op |-> "open_account", res |-> r.res,
                   user |-> opening[t].username,
                   ret |-> opening[t].account_number,
                   retried |-> opening[t].retried,
                   overlapped |-> opening[t].overlapped]
    /\ opening' = [opening EXCEPT ![t] = Idle]
    /\ UNCHANGED <<users, calls, registration, account>>

\* alice_01 has registered; no account has been opened.
InitOpening ==
    /\ accounts = <<>>
    /\ users = Put(<<>>, alice_01, NewUser(alice_01, Str0ngPass))
    /\ holders = Put(<<>>, alice_01, <<>>)
    /\ calls = 0
    /\ registration = Put(<<>>, alice_01, Str0ngPass)
    /\ opening = [t \in Callers |-> Idle]
    /\ account = <<>>
    /\ last = [op |-> "create_user", res |-> OK,
               user |-> alice_01, password |-> Str0ngPass]

NextOpening ==
    \/ \E t \in Callers, u \in DOMAIN users, h \in HolderNames, a \in AccountType :
          OpenBegin(t, u, h, a)
    \/ \E t \in Callers, n \in AccountNumbers : GenerateDraw(t, n)
    \/ \E t \in Callers : OpenRegister(t)

SpecOpening == InitOpening /\ [][NextOpening]_vars

\* The calls of one caller: each open_account returns or raises before the
\* next begins.
NextGenerate ==
    \/ \E u \in DOMAIN users, h \in HolderNames, a \in AccountType :
          OpenBegin("caller1", u, h, a)
    \/ \E n \in AccountNumbers : GenerateDraw("caller1", n)
    \/ OpenRegister("caller1")

SpecGenerate == InitOpening /\ [][NextGenerate]_vars

\* The random draw is fair (a number that stays drawable is drawn), and a
\* call that has its number goes on to return.
SpecGenerateFair ==
    /\ SpecGenerate
    /\ \A n \in AccountNumbers : WF_vars(GenerateDraw("caller1", n))
    /\ WF_vars(OpenRegister("caller1"))

(***************************************************************************)
(* src/Banking_Project/main.py: the handlers of BankingApp on its account  *)
(* (None, the empty tuple here, until create_account has succeeded; a      *)
(* later create_account replaces the account).  The entries hold numbers:  *)
(* the ValueError branch of float() is not taken.  The message boxes are   *)
(* recorded in last.                                                       *)
(***************************************************************************)
BankingApp_create_account(initial_balance) ==
    LET r == BankingProject_Account(initial_balance) IN
    /\ account' = IF r.res = OK THEN <<r.acc>> ELSE account
    /\ last' = [op |-> "BankingApp.create_account", res |-> r.res,
                amount |-> initial_balance]
    /\ UNCHANGED <<accounts, users, holders, calls, registration, opening>>

BankingApp_deposit(amount) ==
    /\ IF account = <<>>
       THEN /\ last' = [op |-> "BankingApp.deposit", res |-> NoAccount,
                        amount |-> amount]
            /\ UNCHANGED <<account, calls>>
       ELSE LET r == BankingProject_deposit(account[1], amount) IN
            /\ r.res = OK => calls < MaxCalls
            /\ account' = <<r.acc>>
            /\ calls' = IF r.res = OK THEN calls + 1 ELSE calls
            /\ last' = [op |-> "BankingApp.deposit", res |-> r.res,
                        amount |-> amount]
    /\ UNCHANGED <<accounts, users, holders, registration, opening>>

BankingApp_withdraw(amount) ==
    /\ IF account = <<>>
       THEN /\ last' = [op |-> "BankingApp.withdraw", res |-> NoAccount,
                        amount |-> amount]
            /\ UNCHANGED <<account, calls>>
       ELSE LET r == BankingProject_withdraw(account[1], amount) IN
            /\ r.res = OK => calls < MaxCalls
            /\ account' = <<r.acc>>
            /\ calls' = IF r.res = OK THEN calls + 1 ELSE calls
            /\ last' = [op |-> "BankingApp.withdraw", res |-> r.res,
                        amount |-> amount]
    /\ UNCHANGED <<accounts, users, holders, registration, opening>>

BankingApp_show_balance ==
    /\ last' = IF account = <<>>
               THEN [op |-> "BankingApp.show_balance", res |-> NoAccount]
               ELSE [op |-> "BankingApp.show_balance", res |-> OK,
                     ret |-> check_balance(account[1])]
    /\ UNCHANGED <<accounts, users, holders, calls, registration, opening,
                   account>>

BankingApp_show_statement ==
    /\ last' = IF account = <<>>
               THEN [op |-> "BankingApp.show_statement", res |-> NoAccount]
               ELSE [op |-> "BankingApp.show_statement", res |-> OK,
                     ret |-> print_statement(account[1])]
    /\ UNCHANGED <<accounts, users, holders, calls, registration, opening,
                   account>>

\* BankingApp.__init__: no account.
InitBankingApp ==
    /\ accounts = <<>>
    /\ users = <<>>
    /\ holders = <<>>
    /\ calls = 0
    /\ registration = <<>>
    /\ opening = [t \in Callers |-> Idle]
    /\ account = <<>>
    /\ last = [op |-> "BankingApp", res |-> OK]

NextBankingApp ==
    \/ \E initial_balance \in InitialBalances :
          BankingApp_create_account(initial_balance)
    \/ \E amount \in Amounts : BankingApp_deposit(amount)
    \/ \E amount \in Amounts : BankingApp_withdraw(amount)
    \/ BankingApp_show_balance
    \/ BankingApp_show_statement

SpecBankingApp == InitBankingApp /\ [][NextBankingApp]_vars

(***************************************************************************)
(* Properties.  A step is told by the call it records in last'.            *)
(***************************************************************************)
RECURSIVE SumAmounts(_)
SumAmounts(log) ==
    IF log = <<>> THEN 0 ELSE Head(log).amount + SumAmounts(Tail(log))

IsPrefix(old, new) ==
    /\ Len(old) <= Len(new)
    /\ SubSeq(new, 1, Len(old)) = old

\* The records a call appended to a log.
Gained(old, new) == SubSeq(new, Len(old) + 1, Len(new))

\* C1: after any sequence of deposit, withdraw and calculate_interest calls
\* on an account of either type, failing calls and toggles included, the
\* balance is the sum of the signed amounts of the records of its log.
C1_BalanceIsSumOfLog ==
    \A n \in DOMAIN accounts :
        accounts[n].balance = SumAmounts(accounts[n].log)

\* A withdrawal has followed a deposit.
C1_Witness ==
    /\ last.op = "withdraw"
    /\ last.res = OK
    /\ Len(accounts[last.acct].log) >= 2
    /\ accounts[last.acct].log[1].type = DEPOSIT

\* C2: on an active Current account a withdraw of amount > 0 succeeds
\* whenever balance - amount >= -OVERDRAFT_LIMIT, also when that leaves the
\* balance negative (fresh account: withdraw(5000) leaves -5000).
C2_OverdraftWithdrawSucceeds ==
    [][(/\ last'.op = "withdraw"
        /\ accounts[last'.acct].type = CURRENT
        /\ accounts[last'.acct].active
        /\ last'.amount > 0
        /\ accounts[last'.acct].balance - last'.amount >= -OVERDRAFT_LIMIT)
       => /\ last'.res = OK
          /\ accounts'[last'.acct].balance
                = accounts[last'.acct].balance - last'.amount]_vars

\* C10: a deposit of amount <= 0, or on an inactive account, fails and
\* changes neither balance nor log; a deposit of amount > 0 on an active
\* account adds amount to the balance and appends one Deposit record.
C10_Deposit ==
    [][last'.op = "deposit" =>
        LET n == last'.acct
            amount == last'.amount
        IN  IF amount <= 0 \/ ~accounts[n].active
            THEN /\ last'.res # OK
                 /\ accounts'[n].balance = accounts[n].balance
                 /\ accounts'[n].log = accounts[n].log
            ELSE /\ last'.res = OK
                 /\ accounts'[n].balance = accounts[n].balance + amount
                 /\ IsPrefix(accounts[n].log, accounts'[n].log)
                 /\ Len(Gained(accounts[n].log, accounts'[n].log)) = 1
                 /\ Gained(accounts[n].log, accounts'[n].log)[1].type = DEPOSIT
                 /\ Gained(accounts[n].log, accounts'[n].log)[1].amount = amount]_vars

\* A deposit was accepted, the account was deactivated, and a deposit of a
\* positive amount was then refused.
C10_Witness ==
    /\ last.op = "deposit"
    /\ last.res = InactiveAccount
    /\ last.amount > 0
    /\ accounts[last.acct].balance > 0

\* The debit step of a transfer is reached once its validation has passed.
DebitAttempted == last'.op = "transfer" /\ last'.stage # "validate"

\* C3: no withdrawal from a Savings account, direct or as the debit step of
\* a transfer, leaves its balance below MINIMUM_BALANCE: with amount > 0
\* and balance - amount < MINIMUM_BALANCE it fails with BelowMinimumBalance
\* and leaves balance and log unchanged; with balance - amount >=
\* MINIMUM_BALANCE on an active account it succeeds.
C3_SavingsMinimum ==
    [][/\ \A n \in DOMAIN accounts :
            (accounts[n].type = SAVINGS
                /\ accounts'[n].balance < accounts[n].balance)
            => accounts'[n].balance >= MINIMUM_BALANCE
       /\ (last'.op = "withdraw" /\ accounts[last'.acct].type = SAVINGS
              /\ last'.amount > 0) =>
            LET n == last'.acct
                amount == last'.amount
            IN  IF accounts[n].balance - amount < MINIMUM_BALANCE
                THEN /\ last'.res = BelowMinimumBalance
                     /\ accounts'[n].balance = accounts[n].balance
                     /\ accounts'[n].log = accounts[n].log
                ELSE accounts[n].active =>
                     /\ last'.res = OK
                     /\ accounts'[n].balance = accounts[n].balance - amount
       /\ (DebitAttempted /\ accounts[last'.acct].type = SAVINGS) =>
            LET n == last'.acct
                amount == last'.amount
            IN  IF accounts[n].balance - amount < MINIMUM_BALANCE
                THEN /\ last'.res = BelowMinimumBalance
                     /\ accounts'[n].balance = accounts[n].balance
                     /\ accounts'[n].log = accounts[n].log
                ELSE /\ last'.stage # "withdraw"
                     /\ Gained(accounts[n].log, accounts'[n].log)[1]
                          = [type |-> WITHDRAWAL, amount |-> -amount,
                             balance |-> accounts[n].balance - amount]]_vars

\* A withdrawal from a Savings account succeeded and the next one was
\* refused for the minimum balance.
C3_Witness ==
    /\ last.op = "withdraw"
    /\ last.res = BelowMinimumBalance
    /\ last.amount > 0
    /\ accounts[last.acct].type = SAVINGS
    /\ \E i \in 1..Len(accounts[last.acct].log) :
          accounts[last.acct].log[i].type = WITHDRAWAL

CurrentWithinOverdraft ==
    \A n \in DOMAIN accounts :
        accounts[n].type = CURRENT => accounts[n].balance >= -OVERDRAFT_LIMIT

\* C4: the balance of a Current account is >= -OVERDRAFT_LIMIT in every
\* reachable state, and a withdraw, direct or as the debit step of a
\* transfer, that would take it below fails with OverdraftLimitExceeded and
\* leaves balance and log unchanged.
C4_CurrentOverdraftLimit ==
    /\ []CurrentWithinOverdraft
    /\ [][((last'.op = "withdraw" \/ DebitAttempted)
             /\ accounts[last'.acct].type = CURRENT
             /\ accounts[last'.acct].balance - last'.amount < -OVERDRAFT_LIMIT)
          => /\ last'.res = OverdraftLimitExceeded
             /\ accounts'[last'.acct].balance = accounts[last'.acct].balance
             /\ accounts'[last'.acct].log = accounts[last'.acct].log]_vars

\* The debit step of a transfer from a Current account was refused for the
\* overdraft limit.
C4_Witness ==
    /\ last.op = "transfer"
    /\ last.res = OverdraftLimitExceeded
    /\ last.stage = "withdraw"
    /\ accounts[last.acct].type = CURRENT

TransferRecords(records) ==
    SelectSeq(records,
              LAMBDA t : t.type \in {TRANSFER_SENT, TRANSFER_RECEIVED})

Kinds(records) == [i \in 1..Len(records) |-> records[i].type]

\* C5: a successful transfer between two distinct (active) accounts lowers
\* the sender's balance by amount and raises the receiver's by amount, and
\* each of the two gains exactly one transfer record: Transfer Sent of
\* -amount on the sender, Transfer Received of +amount on the receiver.
\* (It follows the Withdrawal, resp. Deposit, record of the call that moved
\* the money, so each log grows by two records.)
C5_TransferMovesAmount ==
    [][(last'.op = "transfer" /\ last'.res = OK /\ last'.acct # last'.to) =>
        LET a == last'.acct
            b == last'.to
            amount == last'.amount
            gainedA == Gained(accounts[a].log, accounts'[a].log)
            gainedB == Gained(accounts[b].log, accounts'[b].log)
        IN  /\ accounts[a].active /\ accounts[b].active
            /\ accounts'[a].balance = accounts[a].balance - amount
            /\ accounts'[b].balance = accounts[b].balance + amount
            /\ IsPrefix(accounts[a].log, accounts'[a].log)
            /\ IsPrefix(accounts[b].log, accounts'[b].log)
            /\ Len(TransferRecords(gainedA)) = 1
            /\ TransferRecords(gainedA)[1].type = TRANSFER_SENT
            /\ TransferRecords(gainedA)[1].amount = -amount
            /\ Len(TransferRecords(gainedB)) = 1
            /\ TransferRecords(gainedB)[1].type = TRANSFER_RECEIVED
            /\ TransferRecords(gainedB)[1].amount = amount
            /\ Kinds(gainedA) = <<WITHDRAWAL, TRANSFER_SENT>>
            /\ Kinds(gainedB) = <<DEPOSIT, TRANSFER_RECEIVED>>]_vars

\* A transfer between two distinct accounts has succeeded.
C5_Witness ==
    /\ last.op = "transfer"
    /\ last.res = OK
    /\ last.acct # last.to
    /\ accounts[last.to].balance = last.amount

\* The single caller goes on making calls.
SpecLedgerFair == SpecLedger /\ WF_vars(NextLedger)

\* A transfer raised after its withdraw step had succeeded.
PartialTransfer == last.op = "transfer" /\ last.stage = "deposit"

\* C6 as stated: some execution of transfer has the sender's withdraw step
\* succeed and a later step of the same transfer fail.
C6_PartialTransferHappens == <>PartialTransfer

\* C6, amended: with a single caller no transfer fails after its withdraw
\* step has succeeded; a transfer that raises leaves every account as it
\* was, and one that returns has debited the sender and credited the
\* receiver.
C6_TransferAllOrNothing ==
    [][last'.op = "transfer" =>
        /\ last'.stage # "deposit"
        /\ last'.res # OK => accounts' = accounts
        /\ last'.res = OK =>
             /\ Kinds(Gained(accounts[last'.acct].log,
                             accounts'[last'.acct].log))[1] = WITHDRAWAL
             /\ \E i \in 1..Len(Gained(accounts[last'.to].log,
                                       accounts'[last'.to].log)) :
                   Gained(accounts[last'.to].log,
                          accounts'[last'.to].log)[i]
                      = [type |-> DEPOSIT, amount |-> last'.amount,
                         balance |-> accounts'[last'.to].balance]]_vars

\* The withdraw step of a transfer succeeded (and so did the rest).
C6_Witness ==
    /\ last.op = "transfer"
    /\ last.stage = "done"
    /\ accounts[last.acct].log # <<>>

\* C7: transfer checks in this order, and each failure leaves every account
\* unchanged: amount <= 0 is a ValidationError (also with an unknown
\* account number); else a missing sender or receiver is AccountNotFound;
\* else an inactive sender or receiver is InactiveAccount; only then the
\* withdraw on the sender and the deposit on the receiver are attempted,
\* in that order.
C7_TransferValidationOrder ==
    [][last'.op = "transfer" =>
        LET s == last'.acct
            r == last'.to
            amount == last'.amount
        IN  /\ last'.res # OK => accounts' = accounts
            /\ IF amount <= 0 THEN last'.res = ValidationError
               ELSE IF s \notin DOMAIN accounts \/ r \notin DOMAIN accounts
               THEN last'.res = AccountNotFound
               ELSE IF ~accounts[s].active \/ ~accounts[r].active
               THEN last'.res = InactiveAccount
               ELSE /\ last'.res = withdraw(accounts[s], amount).res
                    /\ last'.res # OK => last'.stage = "withdraw"
                    /\ (last'.res = OK /\ s # r) =>
                         /\ Kinds(Gained(accounts[s].log, accounts'[s].log))[1]
                              = WITHDRAWAL
                         /\ Kinds(Gained(accounts[r].log, accounts'[r].log))[1]
                              = DEPOSIT
                    /\ (last'.res = OK /\ s = r) =>
                         Gained(accounts[s].log, accounts'[s].log)
                           = << [type |-> WITHDRAWAL, amount |-> -amount,
                                 balance |-> accounts[s].balance - amount],
                                [type |-> DEPOSIT, amount |-> amount,
                                 balance |-> accounts[s].balance],
                                [type |-> TRANSFER_SENT, amount |-> -amount,
                                 balance |-> accounts[s].balance],
                                [type |-> TRANSFER_RECEIVED, amount |-> amount,
                                 balance |-> accounts[s].balance] >>]_vars

\* A transfer of a non-positive amount to an unknown account number was
\* refused for the amount.
C7_Witness ==
    /\ last.op = "transfer"
    /\ last.amount <= 0
    /\ last.to \notin DOMAIN accounts
    /\ last.res = ValidationError

Range(f) == {f[x] : x \in DOMAIN f}

\* The account numbers open_account has returned: each was appended to the
\* list of its owner, and no list ever loses an entry.
Issued == UNION {Range(holders[u]) : u \in DOMAIN holders}

\* No account number appears twice in the owned-account lists.
IssuedOnce ==
    /\ \A u \in DOMAIN holders :
          \A i, j \in 1..Len(holders[u]) :
              holders[u][i] = holders[u][j] => i = j
    /\ \A u, v \in DOMAIN holders :
          u # v => Range(holders[u]) \cap Range(holders[v]) = {}

\* C8: every successful open_account returns a number that no earlier
\* open_account on this Bank returned; it adds exactly one account to the
\* account mapping and replaces none.
C8_AccountNumbersUnique ==
    /\ []IssuedOnce
    /\ [][(last'.op = "open_account" /\ last'.res = OK) =>
            /\ last'.ret \notin Issued
            /\ last'.ret \notin DOMAIN accounts
            /\ DOMAIN accounts' = DOMAIN accounts \cup {last'.ret}
            /\ Cardinality(DOMAIN accounts')
                 = Cardinality(DOMAIN accounts) + 1
            /\ \A n \in DOMAIN accounts : accounts'[n] = accounts[n]]_vars

\* open_account has returned for the second time.
C8_Witness ==
    /\ last.op = "open_account"
    /\ last.res = OK
    /\ Cardinality(Issued) >= 2

\* C9: every account number in any username's owned-account list is a key
\* of the account mapping.
C9_OwnedAccountsExist ==
    \A u \in DOMAIN holders : Range(holders[u]) \subseteq DOMAIN accounts

\* A user owns two accounts.
C9_Witness ==
    \E u \in DOMAIN holders : Len(holders[u]) >= 2

\* C11: for both variants and for every balance, a withdraw of amount <= 0
\* (on an active account) fails with InvalidAmount, not with a policy error
\* of the variant, and leaves balance and log unchanged.
C11_WithdrawNonPositiveIsInvalidAmount ==
    [][(/\ last'.op = "withdraw"
        /\ last'.amount <= 0
        /\ accounts[last'.acct].active)
       => /\ last'.res = InvalidAmount
          /\ accounts'[last'.acct].balance = accounts[last'.acct].balance
          /\ accounts'[last'.acct].log = accounts[last'.acct].log]_vars

\* C12: each successful deposit, withdraw and Savings calculate_interest
\* call appends exactly one record to the log of its account, whose
\* resulting-balance field is the balance after the call; a failed call
\* appends nothing; and no operation (transfer and calculate_all_interest
\* included) alters or removes a record: the old log is a prefix of the new.
C12_OneRecordPerOperation ==
    [][/\ \A n \in DOMAIN accounts :
            IsPrefix(accounts[n].log, accounts'[n].log)
       /\ (last'.op \in {"deposit", "withdraw"} /\ last'.res = OK) =>
            /\ Len(Gained(accounts[last'.acct].log,
                          accounts'[last'.acct].log)) = 1
            /\ accounts'[last'.acct].log[Len(accounts'[last'.acct].log)].balance
                 = accounts'[last'.acct].balance
       /\ (last'.op \in {"deposit", "withdraw"} /\ last'.res # OK) =>
            accounts'[last'.acct].log = accounts[last'.acct].log
       /\ (last'.op = "calculate_interest"
              /\ accounts[last'.acct].type = SAVINGS) =>
            /\ Len(Gained(accounts[last'.acct].log,
                          accounts'[last'.acct].log)) = 1
            /\ accounts'[last'.acct].log[Len(accounts'[last'.acct].log)]
                 = [type |-> INTEREST_CREDIT, amount |-> last'.ret,
                    balance |-> accounts'[last'.acct].balance]]_vars

\* Interest was credited to a Savings account whose log already held a
\* record.
C12_Witness ==
    /\ last.op = "calculate_interest"
    /\ accounts[last.acct].type = SAVINGS
    /\ Len(accounts[last.acct].log) >= 2
    /\ accounts[last.acct].log[1].type = DEPOSIT

\* C13: create_user fails when the username is already registered, and a
\* failing create_user (duplicate or validation failure) leaves the user
\* mapping and the ownership mapping unchanged, so the password hash and
\* the owned-account list of the existing user are kept.  A successful
\* create_user adds exactly that user, with an empty owned-account list.
C13_CreateUser ==
    [][last'.op = "create_user" =>
        LET u == last'.user IN
        /\ u \in DOMAIN users => last'.res = ValidationError
        /\ last'.res # OK => users' = users /\ holders' = holders
        /\ last'.res = OK =>
             /\ u \notin DOMAIN users
             /\ DOMAIN users' = DOMAIN users \cup {u}
             /\ DOMAIN holders' = DOMAIN holders \cup {u}
             /\ \A v \in DOMAIN users : users'[v] = users[v]
             /\ \A v \in DOMAIN holders : holders'[v] = holders[v]
             /\ users'[u] = NewUser(u, last'.password)
             /\ holders'[u] = <<>>]_vars

\* A registered user who owns an account was the target of a create_user
\* with another, valid, password, and the call was refused.
C13_Witness ==
    /\ last.op = "create_user"
    /\ last.res = ValidationError
    /\ last.user \in DOMAIN users
    /\ validate_password(last.password)
    /\ ~verify_password(users[last.user], last.password)
    /\ holders[last.user] # <<>>

\* C14: after any sequence of create_user calls, rejected duplicates with
\* other passwords included, authenticate_user(u, p) returns true if and
\* only if u was successfully registered and p is the password given at
\* that registration; it returns false for an unknown username or another
\* password, and changes no state.
C14_AuthenticateUser ==
    [][last'.op = "authenticate_user" =>
        /\ last'.ret = (/\ last'.user \in DOMAIN registration
                        /\ registration[last'.user] = last'.password)
        /\ last'.res = OK
        /\ UNCHANGED <<accounts, users, holders>>]_vars

\* A create_user for the registered user with another valid password was
\* refused, and authenticate_user has then refused that other password.
C14_Witness ==
    /\ last.op = "authenticate_user"
    /\ last.user \in DOMAIN registration
    /\ registration[last.user] # last.password
    /\ validate_password(last.password)
    /\ last.ret = FALSE

\* C15: calculate_all_interest applies calculate_interest exactly once to
\* every Savings account that is active at the time of the call (it gains
\* one Interest Credit record and its balance grows by the monthly
\* interest on it), and leaves every inactive Savings account and every
\* Current account unchanged.
C15_CalculateAllInterest ==
    [][last'.op = "calculate_all_interest" =>
        /\ DOMAIN accounts' = DOMAIN accounts
        /\ \A n \in DOMAIN accounts :
             IF accounts[n].type = SAVINGS /\ accounts[n].active
             THEN /\ accounts'[n].balance
                       = accounts[n].balance
                         + (accounts[n].balance * INTEREST_RATE_PER_MILLE)
                              \div (1000 * MONTHS_PER_YEAR)
                  /\ accounts'[n].log
                       = Append(accounts[n].log,
                                [type |-> INTEREST_CREDIT,
                                 amount |-> accounts'[n].balance
                                              - accounts[n].balance,
                                 balance |-> accounts'[n].balance])
                  /\ accounts'[n].active
                  /\ accounts'[n].type = SAVINGS
             ELSE accounts'[n] = accounts[n]]_vars

\* An interest run has credited one Savings account and passed over an
\* inactive Savings account that holds a balance.
C15_Witness ==
    /\ last.op = "calculate_all_interest"
    /\ \E n \in DOMAIN accounts :
          /\ accounts[n].type = SAVINGS
          /\ accounts[n].active
          /\ accounts[n].log # <<>>
          /\ accounts[n].log[Len(accounts[n].log)].type = INTEREST_CREDIT
          /\ accounts[n].log[Len(accounts[n].log)].amount > 0
    /\ \E n \in DOMAIN accounts :
          /\ accounts[n].type = SAVINGS
          /\ ~accounts[n].active
          /\ accounts[n].balance > 0
          /\ accounts[n].log[Len(accounts[n].log)].type = DEPOSIT

\* C16: calculate_interest on a Current account returns 0 and leaves its
\* balance, log and active flag unchanged, whatever its state.
C16_CurrentInterestIsZero ==
    [][(last'.op = "calculate_interest"
          /\ accounts[last'.acct].type = CURRENT) =>
        /\ last'.ret = 0
        /\ last'.res = OK
        /\ accounts'[last'.acct] = accounts[last'.acct]]_vars

\* calculate_interest was called on an inactive Current account that holds
\* a balance.
C16_Witness ==
    /\ last.op = "calculate_interest"
    /\ accounts[last.acct].type = CURRENT
    /\ accounts[last.acct].balance > 0
    /\ ~accounts[last.acct].active

InLoop(t) == opening[t].pc \in {"generate", "retry"}

\* C17: account-number generation is a retry loop that terminates: an
\* open_account call with a valid holder name that is in the loop returns,
\* as long as a number of the number space is unused, under a fair random
\* draw; and a number that the loop draws and finds in use is discarded (the
\* loop draws again), so that the number open_account returns is one its
\* loop found not in use.
C17_GenerationTerminates ==
    /\ \A t \in Callers :
          InLoop(t) ~> (opening[t].pc = "idle" \/ DOMAIN accounts = AccountNumbers)
    /\ [][/\ \A t \in Callers :
               (/\ last'.op = "generate_account_number"
                /\ InLoop(t)
                /\ opening'[t] # opening[t]) =>
                  IF opening'[t].account_number \in DOMAIN accounts
                  THEN opening'[t].pc = "retry"
                  ELSE opening'[t].pc = "generated"
          /\ (last'.op = "open_account" /\ last'.res = OK) =>
               \E t \in Callers :
                  /\ opening[t].pc = "generated"
                  /\ opening'[t].pc = "idle"
                  /\ opening[t].account_number = last'.ret]_vars

\* A call whose loop drew a number in use and drew again has returned.
C17_Witness ==
    /\ last.op = "open_account"
    /\ last.res = OK
    /\ last.retried
    /\ ~last.overlapped

\* The owned-account lists hold more entries than there are accounts: two
\* calls returned one number, and the account of the later replaced the
\* account of the earlier in the account mapping.
Collision ==
    /\ ~IssuedOnce
    /\ \E u \in DOMAIN holders :
          \E i, j \in 1..Len(holders[u]) :
              i # j /\ holders[u][i] = holders[u][j]
                    /\ holders[u][i] \in DOMAIN accounts

\* C18: account-number generation is not safe under interleaved access.
\* When two open_account calls on one Bank overlap, both may pass the
\* not-in-accounts test before either stores its account, both then return
\* the same number and the later store replaces the account of the earlier
\* (the state C18_Witness); a call that did not overlap with another never
\* returns a number in use, so with serialized calls that state is
\* unreachable.
C18_CollisionOnlyWhenInterleaved ==
    [][(last'.op = "open_account" /\ last'.res = OK) =>
        /\ ~last'.overlapped =>
             /\ last'.ret \notin DOMAIN accounts
             /\ last'.ret \notin Issued
             /\ Collision' => Collision
        /\ last'.ret \in DOMAIN accounts =>
             /\ last'.overlapped
             /\ last'.ret \in Issued
             /\ DOMAIN accounts' = DOMAIN accounts
             /\ Collision']_vars

\* Two overlapping calls have returned the same number, and the Current
\* account of the later has replaced the Savings account of the earlier.
C18_Witness ==
    /\ last.op = "open_account"
    /\ last.res = OK
    /\ last.overlapped
    /\ Collision
    /\ holders[last.user] = <<last.ret, last.ret>>
    /\ DOMAIN accounts = {last.ret}
    /\ accounts[last.ret].type = CURRENT

\* C19: in every reachable state of a Bank, states reached through
\* successful transfers included, the balance of each account is the sum of
\* the signed amounts of the records of its log, and the resulting-balance
\* field of each record is that of the record before it (0 before the
\* first) plus the amount of the record.
C19_LogAccountsForBalance ==
    \A n \in DOMAIN accounts :
        /\ accounts[n].balance = SumAmounts(accounts[n].log)
        /\ \A i \in 1..Len(accounts[n].log) :
              accounts[n].log[i].balance
                 = (IF i = 1 THEN 0 ELSE accounts[n].log[i - 1].balance)
                   + accounts[n].log[i].amount

\* The usernames whose owned-account list holds account number n.
Owners(n) == {u \in DOMAIN holders : n \in Range(holders[u])}

EveryAccountOwnedOnce ==
    \A n \in DOMAIN accounts : Cardinality(Owners(n)) = 1

\* C20: every account of the account mapping is owned by exactly one
\* username: in every reachable state, with open_account called for any
\* username, registered or not, each key of the account mapping is in the
\* owned-account list of exactly one user; and an open_account call that
\* fails leaves the account mapping unchanged.
C20_AccountsHaveOneOwner ==
    /\ []EveryAccountOwnedOnce
    /\ [][(last'.op = "open_account" /\ last'.res # OK)
            => accounts' = accounts]_vars

\* C21: while an account is inactive, no operation other than
\* toggle_account_status changes it: deposit, withdraw, transfer (as sender
\* or receiver), calculate_interest and calculate_all_interest leave the
\* balance and the log of an inactive account unchanged.
C21_InactiveAccountFrozen ==
    [][\A n \in DOMAIN accounts :
          (~accounts[n].active /\ last'.op # "toggle_account_status") =>
             /\ accounts'[n].balance = accounts[n].balance
             /\ accounts'[n].log = accounts[n].log]_vars

\* C22: transfer conserves money: every transfer call, successful or
\* failing, a transfer from an account to itself included, leaves the sum
\* of all account balances (admin_check_total_deposit) unchanged and
\* changes the balance of no account other than the sender and the
\* receiver.
C22_TransferConservesMoney ==
    [][last'.op = "transfer" =>
        /\ DOMAIN accounts' = DOMAIN accounts
        /\ admin_check_total_deposit(accounts')
             = admin_check_total_deposit(accounts)
        /\ \A n \in DOMAIN accounts \ {last'.acct, last'.to} :
              accounts'[n] = accounts[n]
        /\ last'.acct = last'.to =>
              \A n \in DOMAIN accounts :
                  accounts'[n].balance = accounts[n].balance]_vars

\* A transfer from an account to itself has succeeded in a Bank that has
\* other accounts holding money.
C22_Witness ==
    /\ last.op = "transfer"
    /\ last.res = OK
    /\ last.acct = last.to
    /\ \E n \in DOMAIN accounts \ {last.acct} : accounts[n].balance > 0
    /\ Len(accounts[last.acct].log) >= 4

\* C23: for the Account of Banking_Project, after construction with any
\* accepted initial balance and any sequence of deposit and withdraw calls,
\* the running balance on the last line of print_statement is the value
\* of check_balance().
C23_StatementShowsBalance ==
    (account # <<>> /\ account[1].transactions # <<>>) =>
        print_statement(account[1])[Len(account[1].transactions)].balance
           = check_balance(account[1])

BankingProject_BalanceNonNegative ==
    account # <<>> => account[1].balance >= 0

\* C24: for the Account of Banking_Project the balance is never negative
\* in any reachable state: construction with a negative initial balance is
\* rejected, and a deposit with amount <= 0, a withdraw with amount <= 0
\* and a withdraw with amount > balance raise an error and leave balance
\* and transaction list unchanged.
C24_BalanceNeverNegative ==
    /\ []BankingProject_BalanceNonNegative
    /\ [][/\ (last'.op = "BankingApp.create_account" /\ last'.amount < 0) =>
               /\ last'.res = InvalidAmountError
               /\ account' = account
          /\ (last'.op = "BankingApp.deposit" /\ account # <<>>
                 /\ last'.amount <= 0) =>
               /\ last'.res = InvalidAmountError
               /\ account' = account
          /\ (last'.op = "BankingApp.withdraw" /\ account # <<>>
                 /\ last'.amount <= 0) =>
               /\ last'.res = InvalidAmountError
               /\ account' = account
          /\ (last'.op = "BankingApp.withdraw" /\ account # <<>>
                 /\ last'.amount > 0
                 /\ last'.amount > account[1].balance) =>
               /\ last'.res = InsufficientBalanceError
               /\ account' = account]_vars

\* After a withdrawal that emptied the account, a further withdrawal was
\* refused for the balance.
C24_Witness ==
    /\ last.op = "BankingApp.withdraw"
    /\ last.res = InsufficientBalanceError
    /\ account # <<>>
    /\ account[1].balance = 0
    /\ account[1].transactions # <<>>
    /\ account[1].transactions[Len(account[1].transactions)][1] = WITHDRAWAL

====
